---- MODULE Spec2Model ----
(***************************************************************************)
(* A model of poetry2rye's convert(project_path, ensure_src,               *)
(* virtual_project) in src/poetry2rye/convert.py.                          *)
(*                                                                         *)
(* A character string that the code takes apart (an author string, a       *)
(* build requirement) is a sequence of one-character strings, or of the    *)
(* tokens the code searches for; a TOML table or a Python dict is a        *)
(* function from its keys to its values; a tomlkit array built with        *)
(* add_line is a sequence of lines, each line a sequence of items.         *)
(***************************************************************************)
EXTENDS Integers, Sequences, FiniteSets, TLC

VARIABLES
  pc,              \* the statement of convert about to run, "done" or "failed"
  ensure_src,      \* argument of convert
  virtual_project, \* argument of convert
  disk,            \* the project directory
  backups,         \* the sibling paths <project>.bak, <project>.bak.1, ...
  disk0,           \* the project directory when the current run started
  backups0,        \* the sibling paths when the current run started
  poetry_project,  \* the PoetryProject built at line 23
  project_sec,     \* local of convert
  urls_sec,        \* local of convert
  tool_rye_sec,    \* local of convert
  result,          \* local of convert: the new document
  project_backup,  \* local of convert: index of the backup path chosen
  failed_at,       \* the statement that raised, when pc = "failed"
  runs             \* number of runs of convert started

vars == <<pc, ensure_src, virtual_project, disk, backups, disk0, backups0,
          poetry_project, project_sec, urls_sec, tool_rye_sec, result,
          project_backup, failed_at, runs>>

(***************************************************************************)
(* Bounds of the model.                                                    *)
(***************************************************************************)
MaxAuthors == 2
MaxDeps == 3
MaxRequires == 2
MaxBak == 2
MaxRuns == 2

(***************************************************************************)
(* Strings.                                                                *)
(***************************************************************************)
\* The set of positions of character c in string s.
Positions(s, c) == {i \in 1..Len(s) : s[i] = c}

Max(S) == CHOOSE m \in S : \A n \in S : n <= m

Min(S) == CHOOSE m \in S : \A n \in S : m <= n

\* Python's s[1:-1].
Slice1m1(s) == IF Len(s) < 2 THEN <<>> ELSE SubSeq(s, 2, Len(s) - 1)

\* Python's s.rpartition(sep) for a one-character sep: <<head, sep, tail>>.
RPartition(s, c) ==
  IF Positions(s, c) = {}
    THEN <<<<>>, <<>>, s>>
    ELSE LET i == Max(Positions(s, c))
         IN <<SubSeq(s, 1, i - 1), <<c>>, SubSeq(s, i + 1, Len(s))>>

\* Python's s.partition(sep): the split at the first occurrence.
Partition(s, c) ==
  IF Positions(s, c) = {}
    THEN <<s, <<>>, <<>>>>
    ELSE LET i == Min(Positions(s, c))
         IN <<SubSeq(s, 1, i - 1), <<c>>, SubSeq(s, i + 1, Len(s))>>

\* Python's `needle in s`.
Contains(needle, s) ==
  \E i \in 1..(Len(s) + 1) :
    /\ i + Len(needle) - 1 <= Len(s)
    /\ SubSeq(s, i, i + Len(needle) - 1) = needle

\* The function d with key k set to v (d[k] = v of a dict).
Put(d, k, v) == (k :> v) @@ d

\* d.get(k, default)
Get(d, k, default) == IF k \in DOMAIN d THEN d[k] ELSE default

\* The function d without key k.
Drop(d, k) == [x \in DOMAIN d \ {k} |-> d[x]]

EmptyDict == <<>>

(***************************************************************************)
(* read_name_email                                                         *)
(***************************************************************************)
read_name_email_first_space(string) ==
  LET p == Partition(string, " ")
  IN [name |-> p[1], email |-> Slice1m1(p[3])]

read_name_email(string) ==
  LET p == RPartition(string, " ")
  IN [name |-> p[1], email |-> Slice1m1(p[3])]

(***************************************************************************)
(* _convert_scripts.  A script value is [type |-> "str", value |-> s] or   *)
(* [type |-> "dict", value |-> d].                                         *)
(***************************************************************************)
convert_script_value(script_value) ==
  IF script_value.type = "str"
    THEN script_value.value
    ELSE Get(script_value.value, "callable", "")

convert_scripts_str_only(poetry_scripts) ==
  LET kept == {n \in DOMAIN poetry_scripts : poetry_scripts[n].type = "str"}
  IN [n \in kept |-> poetry_scripts[n].value]

convert_scripts(poetry_scripts) ==
  LET kept == {n \in DOMAIN poetry_scripts :
                 poetry_scripts[n].type \in {"str", "dict"}}
  IN [n \in kept |-> convert_script_value(poetry_scripts[n])]

(***************************************************************************)
(* tomlkit arrays built line by line.                                      *)
(***************************************************************************)
\* tomlkit.array()
NewArray == <<>>

\* array.add_line(item)
AddLine(arr, item) == Append(arr, <<item>>)

\* array.add_line(indent=""): a line holding no item
AddBlankLine(arr) == Append(arr, <<>>)

RECURSIVE Items(_)
\* The items of an array, in order.
Items(arr) == IF arr = <<>> THEN <<>> ELSE Head(arr) \o Items(Tail(arr))

(***************************************************************************)
(* poetry2rye.project: PoetryProject and its dependency records.           *)
(***************************************************************************)
\* dep.is_python_dep(): the record names the interpreter itself.
is_python_dep(dep) == dep.name = "python"

\* dep.to_str(): the requirement line of a package record.
to_str(dep) == <<dep.name, dep.version>>

\* poetry.core's format_python_constraint: the normalized constraint.
format_python_constraint(version) == <<"requires", version>>

RECURSIVE Normalize(_)
\* The module name of a project name: separators become "_".
Normalize(name) ==
  IF name = <<>> THEN <<>>
  ELSE <<IF Head(name) = "-" THEN "_" ELSE Head(name)>> \o Normalize(Tail(name))

\* The [tool.poetry] table of a document, or the empty table.
PoetryOf(doc) == Get(Get(doc, "tool", EmptyDict), "poetry", EmptyDict)

\* Where PoetryProject looks for the module: under src/ when ensure_src is
\* set and src/ exists, in the project directory otherwise.
ModulePath(d, es) == IF es /\ d.src THEN "src" ELSE "top"

\* PoetryProject(project_path, ensure_src) raises.
PoetryProjectRaises(d, es) ==
  \/ ~({"name", "version", "description"} \subseteq DOMAIN PoetryOf(d.pyproject))
  \/ IF ModulePath(d, es) = "src" THEN ~d.modSrc ELSE ~d.modTop

\* PoetryProject(project_path, ensure_src)
PoetryProject(d, es) ==
  LET poetry == PoetryOf(d.pyproject)
  IN [poetry |-> poetry,
      project_name |-> poetry["name"],
      module_name |-> Normalize(poetry["name"]),
      module_path |-> ModulePath(d, es),
      dependencies |-> Get(poetry, "dependencies", <<>>)]

NoProject == [poetry |-> EmptyDict, project_name |-> <<>>, module_name |-> <<>>,
              module_path |-> "top", dependencies |-> <<>>]

(***************************************************************************)
(* convert, lines 25-92: the project section.                              *)
(***************************************************************************)
\* Lines 27: the [tool.rye] table convert starts from.
ToolRyeSec0(vp) == ("managed" :> TRUE) @@ ("virtual" :> vp)

\* Lines 29-72: the fields copied from [tool.poetry].
ProjectFields(pp) ==
  LET p == pp.poetry
      s0 == ("name" :> pp.project_name) @@ ("version" :> p["version"])
              @@ ("description" :> p["description"])
      authors == [i \in 1..Len(p["authors"]) |-> read_name_email(p["authors"][i])]
      s1 == IF authors # <<>> THEN Put(s0, "authors", authors) ELSE s0
      ms == Get(p, "maintainers", <<>>)
      maintainers == [i \in 1..Len(ms) |-> read_name_email(ms[i])]
      s2 == IF maintainers # <<>> THEN Put(s1, "maintainers", maintainers) ELSE s1
      s3 == IF Get(p, "readme", "") # "" THEN Put(s2, "readme", p["readme"]) ELSE s2
      s4 == IF Get(p, "keywords", <<>>) # <<>>
              THEN Put(s3, "keywords", p["keywords"]) ELSE s3
      s5 == IF Get(p, "classifiers", <<>>) # <<>>
              THEN Put(s4, "classifiers", p["classifiers"]) ELSE s4
  IN s5

\* Lines 55-61: the urls table.
UrlsSec(pp) ==
  LET p == pp.poetry
      u1 == IF Get(p, "homepage", "") # ""
              THEN "Homepage" :> p["homepage"] ELSE EmptyDict
      u2 == IF Get(p, "repository", "") # ""
              THEN Put(u1, "Repository", p["repository"]) ELSE u1
      u3 == IF Get(p, "documentation", "") # ""
              THEN Put(u2, "Documentation", p["documentation"]) ELSE u2
  IN u3

\* Lines 77-85 with the dev test dropped: every package goes to
\* project.dependencies.
DepStep_no_dev(acc, dep) ==
  IF is_python_dep(dep)
    THEN [acc EXCEPT !.project =
            Put(@, "requires-python", format_python_constraint(dep.version))]
    ELSE [acc EXCEPT !.project =
            Put(@, "dependencies", AddLine(@["dependencies"], to_str(dep)))]

\* Lines 77-85: one iteration of the loop over poetry_project.dependencies;
\* acc holds project_sec and tool_rye_sec.
DepStep(acc, dep) ==
  IF is_python_dep(dep)
    THEN [acc EXCEPT !.project =
            Put(@, "requires-python", format_python_constraint(dep.version))]
    ELSE IF dep.is_dev
      THEN [acc EXCEPT !.rye =
              Put(@, "dev-dependencies",
                  AddLine(Get(@, "dev-dependencies", NewArray), to_str(dep)))]
      ELSE [acc EXCEPT !.project =
              Put(@, "dependencies", AddLine(@["dependencies"], to_str(dep)))]

RECURSIVE DepLoop(_, _)
\* Lines 76-85: the loop.
DepLoop(acc, deps) ==
  IF deps = <<>> THEN acc ELSE DepLoop(DepStep(acc, Head(deps)), Tail(deps))

\* Lines 75-88: the dependency arrays, each closed by a blank line.
Dependencies(psec, rye, deps) ==
  LET a0 == [project |-> Put(psec, "dependencies", NewArray), rye |-> rye]
      a1 == DepLoop(a0, deps)
      a2 == IF "dev-dependencies" \in DOMAIN a1.rye
              THEN [a1 EXCEPT !.rye =
                      Put(@, "dev-dependencies", AddBlankLine(@["dev-dependencies"]))]
              ELSE a1
  IN [a2 EXCEPT !.project =
        Put(@, "dependencies", AddBlankLine(@["dependencies"]))]

\* Lines 90-92: the scripts table.
Scripts(psec, pp) ==
  IF Get(pp.poetry, "scripts", EmptyDict) # EmptyDict
    THEN Put(psec, "scripts", convert_scripts(pp.poetry["scripts"]))
    ELSE psec

\* Lines 25-92 raise: poetry["authors"] is read without a default.
BuildRaises(pp) == "authors" \notin DOMAIN pp.poetry

(***************************************************************************)
(* convert, lines 94-146: the new document.                                *)
(***************************************************************************)
PoetryCore == <<"poetry-core">>

Hatchling == <<"hatchling">>

HatchlingBuild == <<"hatchling.build">>

\* Lines 121-128 keeping the old entries: hatchling is only appended.
BuildSystem_keep_all(bs) ==
  Put(Put(bs, "requires", Append(bs["requires"], Hatchling)),
      "build-backend", HatchlingBuild)

\* Lines 121-128: the build-system table of a non-virtual project.
BuildSystem(bs) ==
  LET kept == SelectSeq(bs["requires"], LAMBDA x : ~Contains(PoetryCore, x))
  IN Put(Put(bs, "requires", Append(kept, Hatchling)),
         "build-backend", HatchlingBuild)

\* Lines 105-116: the tool table: rye first, then the input's subsections,
\* then poetry removed.
ToolTable(tool, rye) == Drop(tool @@ ("rye" :> rye), "poetry")

\* Lines 94-130 raise: tool_table.add of a key already present, pop of a
\* key not present, or a build-system table without "requires".
MergeRaises(pyproject, vp) ==
  \/ /\ "tool" \in DOMAIN pyproject
     /\ \/ "rye" \in DOMAIN pyproject["tool"]
        \/ "poetry" \notin DOMAIN pyproject["tool"]
  \/ /\ "build-system" \in DOMAIN pyproject
     /\ ~vp
     /\ "requires" \notin DOMAIN pyproject["build-system"]

\* Lines 108-130 with the two build-system tests made one: the table of a
\* virtual project falls through to the last branch.
LoopBody_one_test(pyproject, name, rye, vp) ==
  IF name = "project" THEN EmptyDict
  ELSE IF name = "tool" THEN name :> ToolTable(pyproject["tool"], rye)
  ELSE IF name = "build-system" /\ ~vp THEN name :> BuildSystem(pyproject[name])
  ELSE name :> pyproject[name]

\* Lines 108-130: what one iteration of the loop over pyproject.keys()
\* stores in result.
LoopBody(pyproject, name, rye, vp) ==
  IF name = "project" THEN EmptyDict
  ELSE IF name = "tool" THEN name :> ToolTable(pyproject["tool"], rye)
  ELSE IF name = "build-system"
    THEN IF ~vp THEN name :> BuildSystem(pyproject[name]) ELSE EmptyDict
  ELSE name :> pyproject[name]

\* Lines 98-130: the document after the loop.
Merge(pyproject, psec, urls, rye, vp) ==
  LET r0 == "project" :> psec
      r1 == IF urls # EmptyDict THEN Put(r0, "project.urls", urls) ELSE r0
      stored == {name \in DOMAIN pyproject :
                   LoopBody(pyproject, name, rye, vp) # EmptyDict}
  IN [name \in stored |-> LoopBody(pyproject, name, rye, vp)[name]] @@ r1

\* Lines 134-141: the package directories of the wheel.
Packages(pp, es) ==
  IF es THEN <<<<"src/">> \o pp.module_name>>
  ELSE LET items == SelectSeq(Get(pp.poetry, "packages", <<>>),
                              LAMBDA item : "include" \in DOMAIN item)
       IN [i \in 1..Len(items) |-> items[i]["include"]]

\* Lines 143-146: the [tool.hatch] table.
HatchTable(packages) ==
  ("metadata" :> ("allow-direct-references" :> TRUE))
    @@ ("build" :> ("targets" :> ("wheel" :> ("packages" :> packages))))

\* Lines 133-146 raise: result has no tool table.
HatchRaises(res, vp) == ~vp /\ "tool" \notin DOMAIN res

\* Lines 133-146: the build configuration of a non-virtual project.
HatchConfig(res, pp, es, vp) ==
  IF vp THEN res
  ELSE Put(res, "tool", Put(res["tool"], "hatch", HatchTable(Packages(pp, es))))

(***************************************************************************)
(* The project directory and its sibling backup paths.                     *)
(* disk: [pyproject: the document in pyproject.toml, lock: poetry.lock     *)
(* exists, src: src/ exists, modTop: <module_name> exists in the project   *)
(* directory, modSrc: src/<module_name> exists].                           *)
(* backups[i]: the path <project>.bak (i = 0) or <project>.bak.<i>.        *)
(***************************************************************************)
EmptyTree == [pyproject |-> EmptyDict, lock |-> FALSE, src |-> FALSE,
              modTop |-> FALSE, modSrc |-> FALSE]

NoSlot == [exists |-> FALSE, complete |-> FALSE, merged |-> FALSE,
           tree |-> EmptyTree]

\* poetry2rye.utils.get_next_backup_path: the first path .bak, .bak.1, ...
\* that does not exist.
get_next_backup_path(b) == Min({i \in DOMAIN b : ~b[i].exists})

\* copytree with an ignore pattern that leaves poetry.lock out.
CopyTree_skip_lock(tree, dst) ==
  [exists |-> TRUE, complete |-> TRUE, merged |-> dst.exists,
   tree |-> [tree EXCEPT !.lock = FALSE]]

\* Line 149: shutil.copytree(project_path, project_backup,
\* dirs_exist_ok=True, symlinks=True) returning normally: the files of the
\* project are written over whatever the destination holds.
CopyTree(tree, dst) ==
  [exists |-> TRUE, complete |-> TRUE, merged |-> dst.exists,
   tree |-> IF dst.exists
              THEN [pyproject |-> tree.pyproject,
                    lock |-> tree.lock \/ dst.tree.lock,
                    src |-> tree.src \/ dst.tree.src,
                    modTop |-> tree.modTop \/ dst.tree.modTop,
                    modSrc |-> tree.modSrc \/ dst.tree.modSrc]
              ELSE tree]

\* Line 149 raising after part of the tree was copied.
PartialCopy(dst) == [dst EXCEPT !.exists = TRUE, !.complete = FALSE]

\* Lines 164-170 copying the module instead of moving it.
MoveModule_copy(d, es, mp) ==
  IF es /\ ~d.src
    THEN [d EXCEPT !.src = TRUE, !.modSrc = IF mp = "top" THEN d.modTop ELSE @]
    ELSE d

\* Lines 164-170 returning normally: src/ is created and the module moved
\* into it, unless src/ exists.
MoveModule(d, es, mp) ==
  IF es /\ ~d.src
    THEN IF mp = "top"
           THEN [d EXCEPT !.src = TRUE, !.modSrc = d.modTop, !.modTop = FALSE]
           ELSE [d EXCEPT !.src = TRUE]
    ELSE d

(***************************************************************************)
(* The statements of convert, in order.                                    *)
(***************************************************************************)
Steps == <<"read", "build", "merge", "hatch", "backup", "write", "scan",
           "unlock", "move", "done">>

\* convert with the backup taken after pyproject.toml is written.
Following_write_first(step) ==
  LET order == <<"read", "build", "merge", "hatch", "write", "backup", "scan",
                 "unlock", "move", "done">>
      i == CHOOSE j \in 1..Len(order) : order[j] = step
  IN order[i + 1]

\* The statement after `step` in convert.
Following(step) ==
  LET i == CHOOSE j \in 1..Len(Steps) : Steps[j] = step
  IN Steps[i + 1]

Raise(step) ==
  /\ pc' = "failed"
  /\ failed_at' = step

\* Line 23
Read ==
  /\ pc = "read"
  /\ IF PoetryProjectRaises(disk, ensure_src)
       THEN /\ Raise("read")
            /\ UNCHANGED poetry_project
       ELSE /\ poetry_project' = PoetryProject(disk, ensure_src)
            /\ pc' = Following("read")
            /\ UNCHANGED failed_at
  /\ UNCHANGED <<ensure_src, virtual_project, disk, backups, disk0, backups0,
                 project_sec, urls_sec, tool_rye_sec, result, project_backup,
                 runs>>

\* Lines 25-92
Build ==
  /\ pc = "build"
  /\ IF BuildRaises(poetry_project)
       THEN /\ Raise("build")
            /\ UNCHANGED <<project_sec, urls_sec, tool_rye_sec>>
       ELSE LET d == Dependencies(ProjectFields(poetry_project),
                                  ToolRyeSec0(virtual_project),
                                  poetry_project.dependencies)
            IN /\ project_sec' = Scripts(d.project, poetry_project)
               /\ tool_rye_sec' = d.rye
               /\ urls_sec' = UrlsSec(poetry_project)
               /\ pc' = Following("build")
               /\ UNCHANGED failed_at
  /\ UNCHANGED <<ensure_src, virtual_project, disk, backups, disk0, backups0,
                 poetry_project, result, project_backup, runs>>

\* Lines 94-130
MergeDocument ==
  /\ pc = "merge"
  /\ IF MergeRaises(disk.pyproject, virtual_project)
       THEN /\ Raise("merge")
            /\ UNCHANGED result
       ELSE /\ result' = Merge(disk.pyproject, project_sec, urls_sec,
                               tool_rye_sec, virtual_project)
            /\ pc' = Following("merge")
            /\ UNCHANGED failed_at
  /\ UNCHANGED <<ensure_src, virtual_project, disk, backups, disk0, backups0,
                 poetry_project, project_sec, urls_sec, tool_rye_sec,
                 project_backup, runs>>

\* Lines 132-146
Hatch ==
  /\ pc = "hatch"
  /\ IF HatchRaises(result, virtual_project)
       THEN /\ Raise("hatch")
            /\ UNCHANGED result
       ELSE /\ result' = HatchConfig(result, poetry_project, ensure_src,
                                     virtual_project)
            /\ pc' = Following("hatch")
            /\ UNCHANGED failed_at
  /\ UNCHANGED <<ensure_src, virtual_project, disk, backups, disk0, backups0,
                 poetry_project, project_sec, urls_sec, tool_rye_sec,
                 project_backup, runs>>

\* Lines 148-150.  copytree returns, raises before it creates the
\* destination, or raises after it copied part of the tree.
Backup ==
  /\ pc = "backup"
  /\ LET path == get_next_backup_path(backups)
     IN /\ project_backup' = path
        /\ \E outcome \in {"ok", "nothing", "partial"} :
             IF outcome = "ok"
               THEN /\ backups' = [backups EXCEPT ![path] = CopyTree(disk, @)]
                    /\ pc' = Following("backup")
                    /\ UNCHANGED failed_at
               ELSE /\ backups' = IF outcome = "partial"
                                    THEN [backups EXCEPT ![path] = PartialCopy(@)]
                                    ELSE backups
                    /\ Raise("backup")
  /\ UNCHANGED <<ensure_src, virtual_project, disk, disk0, backups0,
                 poetry_project, project_sec, urls_sec, tool_rye_sec, result,
                 runs>>

\* Lines 152-153.  open(..., "w") raises and leaves the file, or truncates
\* it; the write then completes or raises.
Write ==
  /\ pc = "write"
  /\ \E outcome \in {"ok", "open_raises", "write_raises"} :
       IF outcome = "ok"
         THEN /\ disk' = [disk EXCEPT !.pyproject = result]
              /\ pc' = Following("write")
              /\ UNCHANGED failed_at
         ELSE /\ disk' = IF outcome = "write_raises"
                           THEN [disk EXCEPT !.pyproject = EmptyDict]
                           ELSE disk
              /\ Raise("write")
  /\ UNCHANGED <<ensure_src, virtual_project, backups, disk0, backups0,
                 poetry_project, project_sec, urls_sec, tool_rye_sec, result,
                 project_backup, runs>>

\* Lines 155-159: the file is read and warnings are printed.
Scan ==
  /\ pc = "scan"
  /\ pc' = Following("scan")
  /\ UNCHANGED <<ensure_src, virtual_project, disk, backups, disk0, backups0,
                 poetry_project, project_sec, urls_sec, tool_rye_sec, result,
                 project_backup, failed_at, runs>>

\* Lines 161-162
RemoveLock ==
  /\ pc = "unlock"
  /\ IF disk.lock
       THEN \E ok \in BOOLEAN :
              IF ok
                THEN /\ disk' = [disk EXCEPT !.lock = FALSE]
                     /\ pc' = Following("unlock")
                     /\ UNCHANGED failed_at
                ELSE /\ Raise("unlock")
                     /\ UNCHANGED disk
       ELSE /\ pc' = Following("unlock")
            /\ UNCHANGED <<disk, failed_at>>
  /\ UNCHANGED <<ensure_src, virtual_project, backups, disk0, backups0,
                 poetry_project, project_sec, urls_sec, tool_rye_sec, result,
                 project_backup, runs>>

\* Lines 164-170.  mkdir raises, or shutil.move raises after mkdir, or both
\* return.
MoveSrc ==
  /\ pc = "move"
  /\ IF ensure_src /\ ~disk.src
       THEN \E outcome \in {"ok", "mkdir_raises", "move_raises"} :
              IF outcome = "ok"
                THEN /\ disk' = MoveModule(disk, ensure_src,
                                           poetry_project.module_path)
                     /\ pc' = Following("move")
                     /\ UNCHANGED failed_at
                ELSE /\ disk' = IF outcome = "move_raises"
                                  THEN [disk EXCEPT !.src = TRUE]
                                  ELSE disk
                     /\ Raise("move")
       ELSE /\ disk' = MoveModule(disk, ensure_src, poetry_project.module_path)
            /\ pc' = Following("move")
            /\ UNCHANGED failed_at
  /\ UNCHANGED <<ensure_src, virtual_project, backups, disk0, backups0,
                 poetry_project, project_sec, urls_sec, tool_rye_sec, result,
                 project_backup, runs>>

\* convert is called again on the same project directory.
Again ==
  /\ pc \in {"done", "failed"}
  /\ runs < MaxRuns
  /\ \E es \in BOOLEAN, vp \in BOOLEAN :
       /\ ensure_src' = es
       /\ virtual_project' = vp
  /\ pc' = "read"
  /\ failed_at' = "none"
  /\ disk0' = disk
  /\ backups0' = backups
  /\ poetry_project' = NoProject
  /\ project_sec' = EmptyDict
  /\ urls_sec' = EmptyDict
  /\ tool_rye_sec' = EmptyDict
  /\ result' = EmptyDict
  /\ project_backup' = -1
  /\ runs' = runs + 1
  /\ UNCHANGED <<disk, backups>>

Next ==
  \/ Read
  \/ Build
  \/ MergeDocument
  \/ Hatch
  \/ Backup
  \/ Write
  \/ Scan
  \/ RemoveLock
  \/ MoveSrc
  \/ Again

(***************************************************************************)
(* The projects convert is run on.                                         *)
(***************************************************************************)
SeqsUpTo(S, n) == UNION {[1..k -> S] : k \in 0..n}

ProjectName == <<"my", "-", "pkg">>

\* "Name <email>"
NameEmail(n, e) == n \o <<" ", "<">> \o e \o <<">">>

JaneDoe ==
  <<"J", "a", "n", "e", " ", "D", "o", "e", " ", "<", "j", "a", "n", "e", "@",
    "e", "x", "a", "m", "p", "l", "e", ".", "c", "o", "m", ">">>

\* Author strings "Name <email>", and one string holding no space.
AuthorStrings ==
  {JaneDoe, NameEmail(<<"J", " ", "D">>, <<"j", "@", "e">>),
   NameEmail(<<"J">>, <<>>), <<"J">>}

\* Script entries: the string form and the structured form, with and
\* without "callable".
ScriptValues ==
  {[type |-> "str", value |-> "pkg.mod:main"],
   [type |-> "dict", value |-> ("callable" :> "pkg.cli:run") @@ ("extras" :> "x")],
   [type |-> "dict", value |-> ("extras" :> "x")]}

ScriptTables ==
  UNION {[names -> ScriptValues] : names \in SUBSET {"cli", "run"}}

\* Dependency records; at most one of a project names the interpreter.
DepRecords ==
  {[name |-> "python", version |-> "^3.8", is_dev |-> FALSE],
   [name |-> "requests", version |-> "^2.0", is_dev |-> FALSE],
   [name |-> "requests", version |-> "^2.0", is_dev |-> TRUE],
   [name |-> "pytest", version |-> "*", is_dev |-> TRUE]}

DepLists ==
  {deps \in SeqsUpTo(DepRecords, MaxDeps) :
     Cardinality({i \in 1..Len(deps) : is_python_dep(deps[i])}) <= 1}

\* Entries of build-system.requires.
Requirements ==
  {<<"poetry-core", ">=1.0">>, <<"setuptools">>, <<"hatchling">>}

PoetryBuild ==
  ("requires" :> <<<<"poetry-core", ">=1.0">>>>)
    @@ ("build-backend" :> <<"poetry.core.masonry.api">>)

BuildSystems ==
  {"build-system" :> Put(PoetryBuild, "requires", r) :
     r \in SeqsUpTo(Requirements, MaxRequires)}
  \cup {"build-system" :> Drop(PoetryBuild, "requires"), EmptyDict}

\* Subsections of [tool] beside poetry.
ToolSiblings ==
  UNION {[names -> {("line-length" :> 88)}] :
           names \in SUBSET {"black", "hatch", "rye"}}

\* Top-level sections beside tool and build-system.
TopSections ==
  UNION {[names -> {("k" :> "v")}] : names \in SUBSET {"project", "extra"}}

BasePoetry ==
  ("name" :> ProjectName) @@ ("version" :> "0.1.0") @@ ("description" :> "d")
    @@ ("authors" :> <<NameEmail(<<"J", " ", "D">>, <<"j", "@", "e">>)>>)
    @@ ("dependencies" :> <<[name |-> "python", version |-> "^3.8", is_dev |-> FALSE],
                            [name |-> "pytest", version |-> "*", is_dev |-> TRUE]>>)
    @@ ("homepage" :> "https://h") @@ ("readme" :> "README.md")
    @@ ("keywords" :> <<"k">>) @@ ("license" :> "MIT")
    @@ ("packages" :> <<("include" :> <<"my", "_", "pkg">>), ("from" :> "lib")>>)

\* A pyproject.toml document.
Document(poetry, siblings, build, tops) ==
  ("tool" :> Put(siblings, "poetry", poetry)) @@ build @@ tops

BaseDocument ==
  Document(BasePoetry, EmptyDict, "build-system" :> PoetryBuild, EmptyDict)

Layouts ==
  {l \in [src : BOOLEAN, modTop : BOOLEAN, modSrc : BOOLEAN] : l.modSrc => l.src}

FlatLayout == [src |-> FALSE, modTop |-> TRUE, modSrc |-> FALSE]

Tree(doc, lock, l) ==
  [pyproject |-> doc, lock |-> lock, src |-> l.src, modTop |-> l.modTop,
   modSrc |-> l.modSrc]

\* The sibling paths: those that exist hold an earlier backup.
OldSlot == [exists |-> TRUE, complete |-> TRUE, merged |-> FALSE,
            tree |-> [EmptyTree EXCEPT !.lock = TRUE]]

Slots == 0..(MaxBak + MaxRuns - 1)

BackupDirs ==
  {b \in [Slots -> {NoSlot, OldSlot}] : \A i \in Slots : i >= MaxBak => b[i] = NoSlot}

NoBackupDirs == [i \in Slots |-> NoSlot]

\* The state when convert is first called on tree d beside siblings b.
Start(d, b, es, vp) ==
  /\ pc = "read"
  /\ ensure_src = es
  /\ virtual_project = vp
  /\ disk = d
  /\ backups = b
  /\ disk0 = d
  /\ backups0 = b
  /\ poetry_project = NoProject
  /\ project_sec = EmptyDict
  /\ urls_sec = EmptyDict
  /\ tool_rye_sec = EmptyDict
  /\ result = EmptyDict
  /\ project_backup = -1
  /\ failed_at = "none"
  /\ runs = 1

\* Documents that make one of the statements before the backup raise, and
\* the base document.
RunDocuments ==
  {BaseDocument,
   Document(Drop(BasePoetry, "description"), EmptyDict, EmptyDict, EmptyDict),
   Document(Drop(BasePoetry, "authors"), EmptyDict, EmptyDict, EmptyDict),
   Document(BasePoetry, "rye" :> ("managed" :> TRUE), EmptyDict, EmptyDict),
   Document(BasePoetry, EmptyDict, "build-system" :> Drop(PoetryBuild, "requires"),
            EmptyDict)}

\* Every layout of the project directory and of its siblings.
Init ==
  \E doc \in RunDocuments, lock \in BOOLEAN, l \in Layouts, b \in BackupDirs,
     es \in BOOLEAN, vp \in BOOLEAN :
    Start(Tree(doc, lock, l), b, es, vp)

Spec == Init /\ [][Next]_vars

\* Every dependency list.
InitDeps ==
  \E deps \in DepLists, siblings \in {EmptyDict, "black" :> ("line-length" :> 88)},
     es \in BOOLEAN, vp \in BOOLEAN :
    Start(Tree(Document(Put(BasePoetry, "dependencies", deps), siblings,
                        "build-system" :> PoetryBuild, EmptyDict),
               TRUE, FlatLayout),
          NoBackupDirs, es, vp)

SpecDeps == InitDeps /\ [][Next]_vars

\* Every combination of sections.
InitSections ==
  \E siblings \in ToolSiblings, build \in BuildSystems, tops \in TopSections,
     es \in BOOLEAN, vp \in BOOLEAN :
    Start(Tree(Document(BasePoetry, siblings, build, tops), TRUE, FlatLayout),
          NoBackupDirs, es, vp)

SpecSections == InitSections /\ [][Next]_vars

\* [tool.poetry] with every list of authors and of maintainers, and with
\* every scripts table.
MetaPoetries ==
  {Put(Put(BasePoetry, "authors", a), "maintainers", m) :
     a \in SeqsUpTo(AuthorStrings, MaxAuthors),
     m \in {<<>>, <<JaneDoe>>, <<NameEmail(<<"J">>, <<>>), <<"J">>>>}}
  \cup {Put(BasePoetry, "authors", a) : a \in SeqsUpTo(AuthorStrings, MaxAuthors)}
  \cup {Put(BasePoetry, "scripts", t) : t \in ScriptTables}

InitMeta ==
  \E poetry \in MetaPoetries, es \in BOOLEAN, vp \in BOOLEAN :
    Start(Tree(Document(poetry, EmptyDict, "build-system" :> PoetryBuild, EmptyDict),
               TRUE, FlatLayout),
          NoBackupDirs, es, vp)

SpecMeta == InitMeta /\ [][Next]_vars

(***************************************************************************)
(* Properties.                                                             *)
(***************************************************************************)
\* Lines 25-92 have run in the current call.
Built ==
  \/ pc \in {"merge", "hatch", "backup", "write", "scan", "unlock", "move", "done"}
  \/ pc = "failed" /\ failed_at \notin {"none", "read", "build"}

\* Lines 25-146 have run in the current call: result is the new document.
OutputBuilt ==
  \/ pc \in {"backup", "write", "scan", "unlock", "move", "done"}
  \/ pc = "failed" /\ failed_at \in {"backup", "write", "unlock", "move"}

\* The document the current call was given.
Input == disk0.pyproject

\* pyproject.toml holds the new document once the call has returned.
Written == pc = "done" => disk.pyproject = result

\* A complete copy of the project as it was before the call stands at a
\* path that did not exist before the call.
BackupTaken ==
  /\ project_backup \in Slots
  /\ ~backups0[project_backup].exists
  /\ backups[project_backup].exists
  /\ backups[project_backup].complete
  /\ backups[project_backup].tree = disk0

\* C1: whenever pyproject.toml has been written or truncated, poetry.lock
\* deleted or the module moved, also when the call then raised, the complete
\* backup of the project already exists.
C1_BackupBeforeChange ==
  (\/ disk # disk0
   \/ pc \in {"scan", "unlock", "move", "done"}
   \/ pc = "failed" /\ failed_at \in {"write", "unlock", "move"})
  => BackupTaken

\* A call raised while writing pyproject.toml and left it truncated.
C1_Witness ==
  /\ pc = "failed"
  /\ failed_at = "write"
  /\ disk.pyproject # disk0.pyproject
  /\ BackupTaken

\* C2: a step never changes a sibling path that exists, and the one path a
\* step creates did not exist, and when the copy completed it holds the
\* project directory as it was before the call.
C2_BackupFresh ==
  [][/\ \A i \in Slots : backups[i].exists => backups'[i] = backups[i]
     /\ backups' # backups =>
          \E i \in Slots :
            /\ ~backups[i].exists
            /\ backups'[i].exists
            /\ ~backups'[i].merged
            /\ \A j \in Slots \ {i} : backups'[j] = backups[j]
            /\ backups'[i].complete =>
                 /\ backups'[i].tree = disk0
                 /\ disk = disk0]_vars

\* A second call made its backup at .bak.2, beside two older backups and
\* after the first call had raised.
C2_Witness ==
  /\ runs = 2
  /\ project_backup = 2
  /\ backups[2].complete
  /\ backups[2].tree = disk0
  /\ backups[0] = OldSlot
  /\ backups[1].exists

\* C3: in the new document every package record of the input is one line of
\* its destination, dev-dependencies when is_dev and project.dependencies
\* otherwise, with nothing else there, and the interpreter record is
\* requires-python.
C3_DependenciesPartitioned ==
  OutputBuilt =>
    LET deps == poetry_project.dependencies
        run == Items(result["project"]["dependencies"])
        dev == Items(Get(result["tool"]["rye"], "dev-dependencies", <<>>))
        Count(s, Test(_)) == Cardinality({i \in 1..Len(s) : Test(s[i])})
        IsRun(d) == ~is_python_dep(d) /\ ~d.is_dev
        IsDev(d) == ~is_python_dep(d) /\ d.is_dev
    IN /\ deps = Get(PoetryOf(Input), "dependencies", <<>>)
       /\ \A i \in 1..Len(deps) :
            LET line == to_str(deps[i])
                Same(d) == to_str(d) = line
            IN /\ IsRun(deps[i]) =>
                    Count(run, LAMBDA x : x = line)
                      = Count(deps, LAMBDA d : IsRun(d) /\ Same(d))
               /\ IsDev(deps[i]) =>
                    Count(dev, LAMBDA x : x = line)
                      = Count(deps, LAMBDA d : IsDev(d) /\ Same(d))
               /\ is_python_dep(deps[i]) =>
                    /\ "requires-python" \in DOMAIN result["project"]
                    /\ result["project"]["requires-python"]
                         = format_python_constraint(deps[i].version)
       /\ Len(run) = Count(deps, IsRun)
       /\ Len(dev) = Count(deps, IsDev)
       /\ ("requires-python" \in DOMAIN result["project"])
            <=> (Count(deps, is_python_dep) = 1)
       /\ ("dev-dependencies" \in DOMAIN result["tool"]["rye"])
            <=> (Count(deps, IsDev) > 0)
       /\ Written

\* A converted project whose list held the interpreter, a development
\* package and the same package as a runtime requirement.
C3_Witness ==
  /\ pc = "done"
  /\ Len(poetry_project.dependencies) = 3
  /\ \E i, j, k \in 1..3 :
       /\ is_python_dep(poetry_project.dependencies[i])
       /\ poetry_project.dependencies[j].name = "requests"
       /\ poetry_project.dependencies[j].is_dev
       /\ poetry_project.dependencies[k].name = "requests"
       /\ ~poetry_project.dependencies[k].is_dev
  /\ Len(Items(disk.pyproject["project"]["dependencies"])) = 1
  /\ Len(Items(disk.pyproject["tool"]["rye"]["dev-dependencies"])) = 1

\* C4: the new document of a virtual project has no build-system table, and
\* a hatch table under tool only when the input had it, unchanged.
C4_VirtualNoBuildSystem ==
  OutputBuilt /\ virtual_project =>
    /\ "build-system" \notin DOMAIN result
    /\ "hatch" \in DOMAIN result["tool"] <=> "hatch" \in DOMAIN Input["tool"]
    /\ "hatch" \in DOMAIN result["tool"] =>
         result["tool"]["hatch"] = Input["tool"]["hatch"]
    /\ Written

\* A virtual project that had a build-system table was converted.
C4_Witness ==
  /\ pc = "done"
  /\ virtual_project
  /\ "build-system" \in DOMAIN Input
  /\ "build-system" \notin DOMAIN disk.pyproject

\* C5: a call with ensure_src on a project without src/ that returns leaves
\* the module at src/<module_name> and not where it was; the move step run
\* on a directory that has src/ changes nothing, and it does not raise.
C5_MoveOnce ==
  /\ [](/\ pc = "done" /\ ensure_src /\ ~disk0.src =>
             /\ disk.src
             /\ disk.modSrc
             /\ ~disk.modTop
             /\ disk0.modTop
        /\ disk.src => \A mp \in {"top", "src"} : MoveModule(disk, TRUE, mp) = disk)
  /\ [][pc = "move" /\ disk.src => pc' = "done" /\ disk' = disk]_vars

\* The module of a flat project was moved under src/.
C5_Witness ==
  /\ pc = "done"
  /\ ensure_src
  /\ ~disk0.src
  /\ disk0.modTop
  /\ disk.modSrc
  /\ ~disk.modTop

\* C6: when the call raised while reading the project, building the new
\* document or copying the backup, the project directory is as it was
\* before the call.
C6_EarlyErrorsChangeNothing ==
  pc = "failed" /\ failed_at \in {"read", "build", "merge", "hatch", "backup"}
    => disk = disk0

\* The backup copy raised half way, after the new document had been built.
C6_Witness ==
  /\ pc = "failed"
  /\ failed_at = "backup"
  /\ backups[project_backup].exists
  /\ ~backups[project_backup].complete
  /\ result # EmptyDict

C8_BuildSystemRewritten ==
  /\ BuildSystem(PoetryBuild)["requires"] = <<Hatchling>>
  /\ OutputBuilt /\ ~virtual_project /\ "build-system" \in DOMAIN Input =>
       LET R == Input["build-system"]["requires"]
           out == result["build-system"]["requires"]
           n == Len(out) - 1
           keep == {i \in 1..Len(R) :
                      \A j \in 1..Len(R[i]) : R[i][j] # "poetry-core"}
       IN /\ n = Cardinality(keep)
          /\ out[n + 1] = Hatchling
          /\ \E f \in [1..n -> keep] :
               /\ \A a, b \in 1..n : a < b => f[a] < f[b]
               /\ \A a \in 1..n : out[a] = R[f[a]]
          /\ result["build-system"]["build-backend"] = HatchlingBuild
          /\ Written

\* requires ["poetry-core>=1.0"] became ["hatchling"] in the written file.
C8_Witness ==
  /\ pc = "done"
  /\ ~virtual_project
  /\ "build-system" \in DOMAIN Input
  /\ Input["build-system"]["requires"] = <<<<"poetry-core", ">=1.0">>>>
  /\ disk.pyproject["build-system"]["requires"] = <<Hatchling>>

\* C9: the scripts table of the new project section has the command names of
\* the input; a string entry is kept, a structured entry becomes its
\* "callable", or "" without one.
C9_ScriptsConverted ==
  Built /\ Get(poetry_project.poetry, "scripts", EmptyDict) # EmptyDict =>
    LET in == poetry_project.poetry["scripts"]
        out == project_sec["scripts"]
    IN /\ DOMAIN out = DOMAIN in
       /\ \A n \in DOMAIN in :
            /\ in[n].type = "str" => out[n] = in[n].value
            /\ in[n].type = "dict" /\ "callable" \in DOMAIN in[n].value =>
                 out[n] = in[n].value["callable"]
            /\ in[n].type = "dict" /\ "callable" \notin DOMAIN in[n].value =>
                 out[n] = ""

\* A table with a string entry and a structured entry without "callable".
C9_Witness ==
  /\ Built
  /\ "scripts" \in DOMAIN poetry_project.poetry
  /\ DOMAIN poetry_project.poetry["scripts"] = {"cli", "run"}
  /\ poetry_project.poetry["scripts"]["cli"].type = "str"
  /\ poetry_project.poetry["scripts"]["run"].type = "dict"
  /\ project_sec["scripts"]["cli"] = "pkg.mod:main"
  /\ project_sec["scripts"]["run"] = ""

\* The records of a list of author strings in the new project section:
\* as long as the list, each string "Name <email>" split at its last space
\* with the brackets taken off the email.
Parsed(in, out) ==
  /\ Len(out) = Len(in)
  /\ \A i \in 1..Len(in) : \A k \in 1..Len(in[i]) :
       LET s == in[i]
           tail == SubSeq(s, k + 1, Len(s))
       IN (/\ s[k] = " "
           /\ Len(tail) >= 2
           /\ tail[1] = "<"
           /\ tail[Len(tail)] = ">"
           /\ \A j \in 1..Len(tail) : tail[j] # " ")
          => out[i] = [name |-> SubSeq(s, 1, k - 1),
                       email |-> SubSeq(tail, 2, Len(tail) - 1)]

\* C10: read_name_email splits "Name <email>" at the last space and takes
\* the brackets off the email; authors and maintainers keep order and length.
C10_AuthorsParsed ==
  /\ read_name_email(JaneDoe)
       = [name |-> <<"J", "a", "n", "e", " ", "D", "o", "e">>,
          email |-> <<"j", "a", "n", "e", "@", "e", "x", "a", "m", "p", "l", "e",
                      ".", "c", "o", "m">>]
  /\ Built =>
       /\ Parsed(poetry_project.poetry["authors"],
                 Get(project_sec, "authors", <<>>))
       /\ Parsed(Get(poetry_project.poetry, "maintainers", <<>>),
                 Get(project_sec, "maintainers", <<>>))

\* Two authors, the first with a space in the name, and a maintainer.
C10_Witness ==
  /\ Built
  /\ Len(poetry_project.poetry["authors"]) = 2
  /\ poetry_project.poetry["authors"][1] = JaneDoe
  /\ project_sec["authors"][1].name = <<"J", "a", "n", "e", " ", "D", "o", "e">>
  /\ project_sec["authors"][2] = [name |-> <<"J">>, email |-> <<>>]
  /\ Len(Get(project_sec, "maintainers", <<>>)) = 1

====
